---- MODULE Spec2Model ----
(***************************************************************************)
(* Model of the payments controller of ilp-kit (api/actions/send.js):      *)
(* PaymentsController.getHistory, .putResource, .setup and .quote, with the *)
(* collaborators they call (destination parser, SPSP client, ledger,       *)
(* Payment and User tables, socket).  Every request is a coroutine that    *)
(* is suspended at each `yield`; requests interleave between suspension    *)
(* points.  A write issued by save() is not awaited and lands later.       *)
(***************************************************************************)
EXTENDS Integers, Sequences, FiniteSets, TLC

(* ---------------------------------------------------------------- bounds *)
NumPut == 2        \* putResource requests in one run
NumSetup == 1      \* setup requests in one run
NumQuote == 2      \* quote requests in one run
NumHistory == 1    \* getHistory requests in one run
MaxRows == 5       \* rows in the Payment table when the history is read

PutReqs == 1..NumPut
SetupReqs == 1..NumSetup
QuoteReqs == 1..NumQuote
HistoryReqs == 1..NumHistory

(* ------------------------------------------------------- values and names *)
Undefined == "undefined"

\* the execution conditions the SPSP side generates, in the order it generates them
CondNames == <<"c1", "c2">>
TransferNames == <<"t1", "t2", "t3", "t4">>

\* the authenticated sender of every putResource / quote request (this.req.user)
ReqUser == [id |-> "1", username |-> "alice"]

\* the rows of the User table
Users == {[id |-> "1", username |-> "alice"], [id |-> "2", username |-> "bob"]}

\* request inputs
PutIds == {"9EFA70EC", "not-a-uuid"}
Destinations == {"bob@wallet.example", "carol@other.example", ""}
PutBodies ==
  { [sourceAmount |-> "12", destinationAmount |-> Undefined, message |-> Undefined],
    [sourceAmount |-> Undefined, destinationAmount |-> "1", message |-> "hi"] }
SetupUsernames == {"bob", "nobody"}
SetupBodies ==
  { [sender_identifier |-> "alice@wallet.example", memo |-> "memo", amount |-> "12"] }
QuoteAmounts == {Undefined, "10"}
QueryPages == {"1", "2", "3"}
QueryLimits == {Undefined, "0", "1", "2", "3"}

(* ------------------------------------------------------------ pure helpers *)
\* request.validateUriParameter('id', id, 'Uuid')
IsUuid(id) == id \in {"9EFA70EC", "9efa70ec"}

\* id.toLowerCase()
ToLowerCase(id) == IF id = "9EFA70EC" THEN "9efa70ec" ELSE id

\* utils.parseDestination
ParseDestination(d) ==
  CASE d = "bob@wallet.example" ->
         [ok |-> TRUE, type |-> "LOCAL",
          accountUri |-> "https://wallet.example/ledger/accounts/bob"]
    [] d = "carol@other.example" ->
         [ok |-> TRUE, type |-> "REMOTE",
          accountUri |-> "https://other.example/ledger/accounts/carol"]
    [] OTHER ->
         [ok |-> FALSE, type |-> Undefined, accountUri |-> Undefined]

\* User.findOne({where: {username}}): the matching rows (empty when none)
UserFindOne(username) == {u \in Users : u.username = username}

\* the columns of a Payment row
Fields ==
  {"state", "source_user", "source_account", "destination_user",
   "destination_account", "source_amount", "destination_amount", "transfer",
   "message", "execution_condition"}

\* new Payment(): no column set
NewPayment == [f \in Fields |-> Undefined]

\* dbPayment.setDataExternal(data): the given columns are merged into the
\* instance, columns the caller leaves out or passes as undefined keep their value
SetDataExternal(row, data) ==
  [f \in Fields |->
     IF f \in DOMAIN data /\ data[f] # Undefined THEN data[f] ELSE row[f]]

\* Payment.findOne({where: {execution_condition: c}}): index of the first
\* matching row, 0 when there is none
RECURSIVE FirstWith(_, _, _)
FirstWith(rows, c, i) ==
  IF i > Len(rows) THEN 0
  ELSE IF rows[i].execution_condition = c THEN i
  ELSE FirstWith(rows, c, i + 1)

PaymentFindOne(rows, c) == FirstWith(rows, c, 1)

\* rows of the table that carry condition c
RowsWith(rows, c) == {i \in 1..Len(rows) : rows[i].execution_condition = c}

\* the unique constraint on execution_condition
Conflicts(rows, row) == RowsWith(rows, row.execution_condition) # {}

\* INSERT: a row that violates the unique constraint is rejected
Insert(rows, row) == IF Conflicts(rows, row) THEN rows ELSE Append(rows, row)

(* ------------------------------------------------------------------ state *)
VARIABLES
  payments,   \* the Payment table: a sequence of rows, a row's id is its index
  held,       \* putResource requests whose transfer is prepared and not yet fulfilled
  socket,     \* notifications published through socket.payment
  issued,     \* execution conditions the SPSP side has produced so far
  put,        \* the putResource coroutines
  setup,      \* the setup coroutines
  quote,      \* the quote coroutines
  history     \* the getHistory coroutines

vars == <<payments, held, socket, issued, put, setup, quote, history>>

NoBody == [sourceAmount |-> Undefined, destinationAmount |-> Undefined, message |-> Undefined]

PutIdle ==
  [pc |-> "idle", id |-> Undefined, destination |-> Undefined, body |-> NoBody,
   type |-> Undefined, accountUri |-> Undefined, cond |-> Undefined,
   transfer |-> Undefined, found |-> 0, dbPayment |-> 0, instance |-> NewPayment,
   save |-> "none", status |-> 0, error |-> "none", events |-> <<>>, pays |-> 0]

SetupIdle ==
  [pc |-> "idle", username |-> Undefined, sender_identifier |-> Undefined,
   memo |-> Undefined, amount |-> Undefined, destinationUser |-> Undefined,
   requested |-> FALSE, cond |-> Undefined, created |-> "none",
   body |-> Undefined, status |-> 0]

QuoteIdle ==
  [pc |-> "idle", destination |-> Undefined, source_amount |-> Undefined,
   destination_amount |-> Undefined, type |-> Undefined, error |-> "none",
   body |-> [sourceAmount |-> Undefined, destinationAmount |-> Undefined]]

HistoryIdle ==
  [pc |-> "idle", page |-> Undefined, limit |-> Undefined,
   body |-> [list |-> <<>>, totalPages |-> Undefined]]

Init ==
  /\ payments = <<>>
  /\ held = {}
  /\ socket = {}
  /\ issued = {}
  /\ put = [r \in PutReqs |-> PutIdle]
  /\ setup = [s \in SetupReqs |-> SetupIdle]
  /\ quote = [q \in QuoteReqs |-> QuoteIdle]
  /\ history = [h \in HistoryReqs |-> HistoryIdle]

\* a condition nobody has produced yet (the conditions are generated from fresh
\* secrets; the unused ones are interchangeable, the least one is taken)
FreshConds ==
  LET unused == {i \in 1..Len(CondNames) : CondNames[i] \notin issued}
  IN  IF unused = {} THEN {}
      ELSE {CondNames[CHOOSE i \in unused : \A j \in unused : i <= j]}

\* requests are numbered in the order they arrive
InOrder(reqs, n) == IF n = 1 THEN TRUE ELSE reqs[n - 1].pc # "idle"

(* ------------------------------------------------------------ putResource *)
\* variant: the exception is swallowed and the request goes on to the record step
ThrowSwallowed(p, e) == [p EXCEPT !.pc = "findOne", !.error = e]

\* an exception thrown into the coroutine at a yield ends the request
Throw(p, e) == [p EXCEPT !.pc = "error", !.error = e]

\* variant: spsp.pay is started without `yield`, the request goes straight on
CallPayNoYield(p) == [p EXCEPT !.pc = "findOne", !.pays = @ + 1]

\* variant: the id is an idempotency key, a request whose id an earlier
\* request has already paid under answers without a new transfer
CallPayOncePerId(p) ==
  IF \E o \in PutReqs : put[o].id = p.id /\ put[o].pays > 0
  THEN [p EXCEPT !.pc = "done", !.status = 200]
  ELSE [p EXCEPT !.pc = "prepare", !.pays = @ + 1]

\* lines 157-163: `yield spsp.pay(...)`: spsp.pay is called (pays counts the
\* calls) and the coroutine waits for the payment
CallPay(p) == [p EXCEPT !.pc = "prepare", !.pays = @ + 1]

\* lines 144-163: the id is validated and lower-cased, the destination is
\* parsed and, when both succeed, spsp.pay is called
PutStart(r) ==
  /\ put[r].pc = "idle"
  /\ InOrder(put, r)
  /\ \E id \in PutIds, dest \in Destinations :
       LET d == ParseDestination(dest)
           p == [put[r] EXCEPT !.id = ToLowerCase(id), !.destination = dest]
       IN  put' = [put EXCEPT ![r] =
                     IF ~IsUuid(id)
                     THEN [Throw(@, "InvalidUriParameterError") EXCEPT !.id = id, !.status = 400]
                     ELSE IF ~d.ok
                     THEN Throw(p, "InvalidDestinationError")
                     ELSE CallPay([p EXCEPT !.type = d.type, !.accountUri = d.accountUri])]
  /\ UNCHANGED <<payments, held, socket, issued, setup, quote, history>>

\* the conditions a transfer can carry: one a receiver handed out, one an
\* earlier transfer carried (a duplicate submit), or a fresh one
PayConds ==
  {setup[s].body : s \in {x \in SetupReqs : setup[x].body # Undefined}}
    \cup {put[r].cond : r \in {x \in PutReqs : put[x].cond # Undefined}}
    \cup FreshConds

\* spsp.pay: the ledger rejects the transfer at prepare time, nothing is held
PayRejected(r) ==
  /\ put[r].pc = "prepare"
  /\ \E e \in {"LedgerInsufficientFundsError", "InvalidLedgerAccountError"} :
       put' = [put EXCEPT ![r] = Throw(@, e)]
  /\ UNCHANGED <<payments, held, socket, issued, setup, quote, history>>

\* spsp.pay to a LOCAL destination: the transfer is held and released in one
\* ledger call, spsp.pay returns; lines 166-168: Payment.findOne is called
PayLocal(r) ==
  /\ put[r].pc = "prepare"
  /\ put[r].type = "LOCAL"
  /\ \E c \in PayConds :
       /\ put' = [put EXCEPT ![r] =
                    [@ EXCEPT !.pc = "findOne", !.cond = c,
                              !.transfer = TransferNames[r],
                              !.events = @ \o <<"prepare", "fulfill">>]]
       /\ issued' = issued \cup {c}
  /\ UNCHANGED <<payments, held, socket, setup, quote, history>>

\* spsp.pay to a REMOTE destination, first phase: the funds are held under
\* the execution condition
PayPrepare(r) ==
  /\ put[r].pc = "prepare"
  /\ put[r].type = "REMOTE"
  /\ \E c \in PayConds :
       /\ put' = [put EXCEPT ![r] =
                    [@ EXCEPT !.pc = "fulfill", !.cond = c,
                              !.transfer = TransferNames[r],
                              !.events = Append(@, "prepare")]]
       /\ issued' = issued \cup {c}
  /\ held' = held \cup {r}
  /\ UNCHANGED <<payments, socket, setup, quote, history>>

\* second phase: the receiver confirms, the transfer is fulfilled and spsp.pay
\* returns; lines 166-168: Payment.findOne is called
PayFulfill(r) ==
  /\ put[r].pc = "fulfill"
  /\ held' = held \ {r}
  /\ put' = [put EXCEPT ![r] =
               [@ EXCEPT !.pc = "findOne", !.events = Append(@, "fulfill")]]
  /\ UNCHANGED <<payments, socket, issued, setup, quote, history>>

\* the ledger's own timeout: the second phase never completes, the hold
\* expires, the ledger rolls the transfer back and spsp.pay throws into the
\* coroutine; nothing after line 163 runs
PayExpire(r) ==
  /\ put[r].pc = "fulfill"
  /\ held' = held \ {r}
  /\ put' = [put EXCEPT ![r] = Throw(@, "DestinationUnreachableError")]
  /\ UNCHANGED <<payments, socket, issued, setup, quote, history>>

\* the database runs the findOne query
PutFindOne(r) ==
  /\ put[r].pc = "findOne"
  /\ LET i == PaymentFindOne(payments, put[r].cond) IN
       put' = [put EXCEPT ![r] =
                 [@ EXCEPT !.pc = "record", !.found = i, !.dbPayment = i,
                           !.instance = IF i = 0 THEN NewPayment ELSE payments[i],
                           !.events = Append(@, "findOne")]]
  /\ UNCHANGED <<payments, held, socket, issued, setup, quote, history>>

\* variant: a new instance is made whatever findOne returned
DbPaymentAlwaysNew(p) == [row |-> 0, instance |-> NewPayment]

\* lines 170-172: the row that findOne returned or, when it returned none,
\* a new instance (row 0: not in the table yet)
DbPaymentOrNew(p) ==
  IF p.dbPayment = 0 THEN [row |-> 0, instance |-> NewPayment]
  ELSE [row |-> p.dbPayment, instance |-> p.instance]

\* variant: a row that already exists is written back as pending
ExternalDataPending(p) ==
  [source_user |-> ReqUser.id,
   destination_account |-> p.accountUri,
   source_amount |-> p.body.sourceAmount,
   destination_amount |-> p.body.destinationAmount,
   transfer |-> p.transfer,
   message |-> p.body.message,
   execution_condition |-> p.cond,
   state |-> IF p.found = 0 THEN "success" ELSE "pending"]

\* lines 174-183: the columns putResource writes
ExternalData(p) ==
  [source_user |-> ReqUser.id,
   destination_account |-> p.accountUri,
   source_amount |-> p.body.sourceAmount,
   destination_amount |-> p.body.destinationAmount,
   transfer |-> p.transfer,
   message |-> p.body.message,
   execution_condition |-> p.cond,
   state |-> "success"]

\* lines 170-192: the instance is filled, save() is started and not awaited,
\* the notification is published and the request answers 200.  The amounts
\* and the message of the request body decide nothing before this step (the
\* outcome of spsp.pay is left open), so they are drawn here, where they are
\* written.
PutRecord(r) ==
  /\ put[r].pc = "record"
  /\ \E b \in PutBodies :
       LET p == [put[r] EXCEPT !.body = b]
           target == DbPaymentOrNew(p)
           inst == SetDataExternal(target.instance, ExternalData(p))
       IN  /\ put' = [put EXCEPT ![r] =
                        [p EXCEPT !.pc = "done", !.dbPayment = target.row,
                                  !.instance = inst, !.save = "pending", !.status = 200,
                                  !.events = @ \o <<"save", "notify">>]]
           /\ socket' = socket \cup {[username |-> ReqUser.username, payment |-> inst]}
  /\ UNCHANGED <<payments, held, issued, setup, quote, history>>

\* the write started by save() reaches the database: an UPDATE of the changed
\* columns of an existing row, or an INSERT
DbSave(r) ==
  /\ put[r].save = "pending"
  /\ IF put[r].dbPayment # 0
     THEN /\ payments' = [payments EXCEPT ![put[r].dbPayment] =
                            SetDataExternal(@, ExternalData(put[r]))]
          /\ put' = [put EXCEPT ![r].save = "applied"]
     ELSE /\ payments' = Insert(payments, put[r].instance)
          /\ put' = [put EXCEPT ![r].save =
                       IF Conflicts(payments, put[r].instance) THEN "conflict" ELSE "applied"]
  /\ UNCHANGED <<held, socket, issued, setup, quote, history>>

(* ------------------------------------------------------------------ setup *)
\* variant: the missing-user check never fires
UserNeverMissing(found) == FALSE

\* line 248: the requested user does not exist
UserMissing(found) == found = {}

\* lines 238-252: the body is read and the user is looked up; without a user
\* the request ends with 404, otherwise spsp.createRequest is called
SetupStart(s) ==
  /\ setup[s].pc = "idle"
  /\ InOrder(setup, s)
  /\ \E u \in SetupUsernames, b \in SetupBodies :
       LET found == UserFindOne(u) IN
         setup' = [setup EXCEPT ![s] =
                     [@ EXCEPT !.pc = IF UserMissing(found) THEN "done" ELSE "createRequest",
                               !.status = IF UserMissing(found) THEN 404 ELSE 0,
                               !.username = u,
                               !.sender_identifier = b.sender_identifier,
                               !.memo = b.memo, !.amount = b.amount,
                               !.destinationUser =
                                  IF found = {} THEN Undefined
                                  ELSE (CHOOSE x \in found : TRUE).id]]
  /\ UNCHANGED <<payments, held, socket, issued, put, quote, history>>

\* variant: setup binds the receiver as the source user and marks the row done
PaymentObjBound(t) ==
  [state |-> "success",
   source_user |-> t.destinationUser,
   source_account |-> t.sender_identifier,
   destination_user |-> t.destinationUser,
   destination_amount |-> t.amount,
   message |-> t.memo,
   execution_condition |-> t.cond]

\* lines 254-261: the row setup creates
PaymentObj(t) ==
  [state |-> "pending",
   source_account |-> t.sender_identifier,
   destination_user |-> t.destinationUser,
   destination_amount |-> t.amount,
   message |-> t.memo,
   execution_condition |-> t.cond]

\* lines 252-268: spsp.createRequest answers with a fresh condition, the
\* Payment instance is built and payment.create() is called
SetupCreateRequest(s) ==
  /\ setup[s].pc = "createRequest"
  /\ \E c \in FreshConds :
       /\ setup' = [setup EXCEPT ![s] =
                      [@ EXCEPT !.pc = "create", !.requested = TRUE, !.cond = c]]
       /\ issued' = issued \cup {c}
  /\ UNCHANGED <<payments, held, socket, put, quote, history>>

\* variant: the response body is set after the try block, whatever create() did
SetupResumeAlways(t, ok) ==
  [t EXCEPT !.pc = "done", !.created = IF ok THEN "ok" ELSE "failed", !.body = t.cond]

\* lines 267-274: the coroutine resumes after `yield payment.create()`: when
\* it returned, the parameters become the response body; when it threw, the
\* catch block logs the error and the body is left unset
SetupResume(t, ok) ==
  IF ok THEN [t EXCEPT !.pc = "done", !.created = "ok", !.body = t.cond]
  ELSE [t EXCEPT !.pc = "done", !.created = "failed"]

\* lines 267-270: the database runs the INSERT of payment.create() and the
\* coroutine resumes: the parameters are handed back
SetupCreated(s) ==
  /\ setup[s].pc = "create"
  /\ LET row == SetDataExternal(NewPayment, PaymentObj(setup[s])) IN
       /\ ~Conflicts(payments, row)
       /\ payments' = Insert(payments, row)
  /\ setup' = [setup EXCEPT ![s] = SetupResume(@, TRUE)]
  /\ UNCHANGED <<held, socket, issued, put, quote, history>>

\* lines 271-274: the INSERT fails in the database and create() throws; the
\* failure is logged and nothing else happens
SetupCreateFails(s) ==
  /\ setup[s].pc = "create"
  /\ setup' = [setup EXCEPT ![s] = SetupResume(@, FALSE)]
  /\ UNCHANGED <<payments, held, socket, issued, put, quote, history>>

(* ------------------------------------------------------------------ quote *)
\* the counterpart amounts a remote quoting endpoint may answer with
RemoteAmounts == {"10", "11"}

\* variant: the destination amount is not passed on when a source amount is given
QuoteArgsSourceFirst(q) ==
  [type |-> q.type,
   sourceAmount |-> q.source_amount,
   destinationAmount |->
     IF q.source_amount # Undefined THEN Undefined ELSE q.destination_amount]

\* variant: the parsed destination is not passed on, spsp.quote cannot tell
\* that the destination is on the local ledger
QuoteArgsUnparsed(q) ==
  [type |-> Undefined,
   sourceAmount |-> q.source_amount,
   destinationAmount |-> q.destination_amount]

\* lines 229-234: the arguments quote passes to spsp.quote
QuoteArgs(q) ==
  [type |-> q.type,
   sourceAmount |-> q.source_amount,
   destinationAmount |-> q.destination_amount]

\* spsp.quote: the request is valid when exactly one amount is supplied
ValidQuoteRequest(a) ==
  (a.sourceAmount = Undefined) # (a.destinationAmount = Undefined)

\* spsp.quote: the quotes a valid request can be answered with
SpspQuotes(a) ==
  LET given == IF a.sourceAmount # Undefined THEN a.sourceAmount ELSE a.destinationAmount
      others == IF a.type = "LOCAL" THEN {given} ELSE RemoteAmounts
  IN  {IF a.sourceAmount # Undefined
       THEN [sourceAmount |-> given, destinationAmount |-> o]
       ELSE [sourceAmount |-> o, destinationAmount |-> given] : o \in others}

\* lines 225-227: the body is read and the destination parser is called
QuoteStart(q) ==
  /\ quote[q].pc = "idle"
  /\ InOrder(quote, q)
  /\ \E d \in Destinations, sa \in QuoteAmounts, da \in QuoteAmounts :
       quote' = [quote EXCEPT ![q] =
                   [@ EXCEPT !.pc = "parse", !.destination = d,
                             !.source_amount = sa, !.destination_amount = da]]
  /\ UNCHANGED <<payments, held, socket, issued, put, setup, history>>

\* lines 225-234: the parser answers; on success spsp.quote is called
QuoteParsed(q) ==
  /\ quote[q].pc = "parse"
  /\ LET d == ParseDestination(quote[q].destination) IN
       quote' = [quote EXCEPT ![q] =
                   IF ~d.ok THEN Throw(@, "InvalidDestinationError")
                   ELSE [@ EXCEPT !.pc = "quote", !.type = d.type]]
  /\ UNCHANGED <<payments, held, socket, issued, put, setup, history>>

\* line 229: spsp.quote answers and the quote becomes the response body
QuoteAnswered(q) ==
  /\ quote[q].pc = "quote"
  /\ ValidQuoteRequest(QuoteArgs(quote[q]))
  /\ \E b \in SpspQuotes(QuoteArgs(quote[q])) :
       quote' = [quote EXCEPT ![q] = [@ EXCEPT !.pc = "done", !.body = b]]
  /\ UNCHANGED <<payments, held, socket, issued, put, setup, history>>

\* line 229: spsp.quote throws
QuoteFails(q) ==
  /\ quote[q].pc = "quote"
  /\ \/ /\ ~ValidQuoteRequest(QuoteArgs(quote[q]))
        /\ quote' = [quote EXCEPT ![q] = Throw(@, "InvalidQuoteRequestError")]
     \/ /\ ValidQuoteRequest(QuoteArgs(quote[q]))
        /\ quote[q].type = "REMOTE"
        /\ quote' = [quote EXCEPT ![q] = Throw(@, "QuoteUnavailableError")]
  /\ UNCHANGED <<payments, held, socket, issued, put, setup, history>>

(* ------------------------------------------------------------- getHistory *)
\* the conditions of the rows the table holds when the history is read
HistoryConds == <<"h1", "h2", "h3", "h4", "h5", "h6", "h7", "h8">>

\* the i-th of those rows: alice paid, alice was paid, or a payment between
\* two other users
HistoryRow(i) ==
  SetDataExternal(NewPayment,
    [state |-> "success",
     source_user |-> IF i % 3 = 1 THEN "1" ELSE "2",
     destination_user |-> IF i % 3 = 2 THEN "1" ELSE "3",
     source_amount |-> "12", destination_amount |-> "12",
     execution_condition |-> HistoryConds[i]])

\* a query-string value used as a number (`count / limit`, OFFSET and LIMIT)
ToNumber(s) ==
  CASE s = "0" -> 0 [] s = "1" -> 1 [] s = "2" -> 2 [] s = "3" -> 3

\* the first n elements of a sequence
Take(seq, n) == SubSeq(seq, 1, IF n < Len(seq) THEN n ELSE Len(seq))

\* the elements of a sequence after the first n
Drop(seq, n) == SubSeq(seq, n + 1, Len(seq))

\* the rows of the table the user sent or received, in table order
RECURSIVE UserRows(_, _, _)
UserRows(rows, user, i) ==
  IF i > Len(rows) THEN <<>>
  ELSE IF rows[i].source_user = user.id \/ rows[i].destination_user = user.id
  THEN <<rows[i]>> \o UserRows(rows, user, i + 1)
  ELSE UserRows(rows, user, i + 1)

\* Payment.getUserPayments(user, page, limit): one page of the user's rows
\* (OFFSET limit * (page - 1) LIMIT limit; every row when no limit is given)
\* and the number of all the user's rows
GetUserPayments(rows, user, page, limit) ==
  LET all == UserRows(rows, user, 1) IN
    [count |-> Len(all),
     rows |-> IF limit = Undefined THEN all
              ELSE Take(Drop(all, ToNumber(limit) * (ToNumber(page) - 1)), ToNumber(limit))]

\* variant: the quotient is rounded down
TotalPagesFloor(count, limit) ==
  IF limit = Undefined THEN "NaN"
  ELSE IF ToNumber(limit) = 0 THEN (IF count = 0 THEN "NaN" ELSE "Infinity")
  ELSE count \div ToNumber(limit)

\* line 107: Math.ceil(payments.count / limit), limit being the query string
TotalPages(count, limit) ==
  IF limit = Undefined THEN "NaN"
  ELSE IF ToNumber(limit) = 0 THEN (IF count = 0 THEN "NaN" ELSE "Infinity")
  ELSE LET q == count \div ToNumber(limit)
       IN  IF q * ToNumber(limit) = count THEN q ELSE q + 1

\* lines 100-103: page and limit are read from the query string and
\* Payment.getUserPayments is called
HistoryStart(h) ==
  /\ history[h].pc = "idle"
  /\ InOrder(history, h)
  /\ \E pg \in QueryPages, lm \in QueryLimits :
       history' = [history EXCEPT ![h] = [@ EXCEPT !.pc = "query", !.page = pg, !.limit = lm]]
  /\ UNCHANGED <<payments, held, socket, issued, put, setup, quote>>

\* lines 103-108: the query answers and the response body is built
HistoryAnswered(h) ==
  /\ history[h].pc = "query"
  /\ LET got == GetUserPayments(payments, ReqUser, history[h].page, history[h].limit) IN
       history' = [history EXCEPT ![h] =
                     [@ EXCEPT !.pc = "done",
                               !.body = [list |-> got.rows,
                                         totalPages |-> TotalPages(got.count, history[h].limit)]]]
  /\ UNCHANGED <<payments, held, socket, issued, put, setup, quote>>

(* --------------------------------------------------------- specifications *)
Next ==
  \/ \E r \in PutReqs : PutStart(r)
  \/ \E r \in PutReqs : PayRejected(r)
  \/ \E r \in PutReqs : PayLocal(r)
  \/ \E r \in PutReqs : PayPrepare(r)
  \/ \E r \in PutReqs : PayFulfill(r)
  \/ \E r \in PutReqs : PayExpire(r)
  \/ \E r \in PutReqs : PutFindOne(r)
  \/ \E r \in PutReqs : PutRecord(r)
  \/ \E r \in PutReqs : DbSave(r)
  \/ \E s \in SetupReqs : SetupStart(s)
  \/ \E s \in SetupReqs : SetupCreateRequest(s)
  \/ \E s \in SetupReqs : SetupCreated(s)
  \/ \E s \in SetupReqs : SetupCreateFails(s)

Spec == Init /\ [][Next]_vars

QuoteNext ==
  \/ \E q \in QuoteReqs : QuoteStart(q)
  \/ \E q \in QuoteReqs : QuoteParsed(q)
  \/ \E q \in QuoteReqs : QuoteAnswered(q)
  \/ \E q \in QuoteReqs : QuoteFails(q)

QuoteSpec == Init /\ [][QuoteNext]_vars

\* getHistory reads a table that earlier requests have filled
HistoryInit ==
  /\ \E n \in 0..MaxRows : payments = [i \in 1..n |-> HistoryRow(i)]
  /\ held = {}
  /\ socket = {}
  /\ issued = {}
  /\ put = [r \in PutReqs |-> PutIdle]
  /\ setup = [s \in SetupReqs |-> SetupIdle]
  /\ quote = [q \in QuoteReqs |-> QuoteIdle]
  /\ history = [h \in HistoryReqs |-> HistoryIdle]

HistoryNext ==
  \/ \E h \in HistoryReqs : HistoryStart(h)
  \/ \E h \in HistoryReqs : HistoryAnswered(h)

HistorySpec == HistoryInit /\ [][HistoryNext]_vars

(* ----------------------------------------------------------- properties *)
Count(c) == Cardinality(RowsWith(payments, c))

\* the row a putResource request wrote to, once its write has been applied
RowOf(r) == payments[CHOOSE i \in RowsWith(payments, put[r].cond) : TRUE]

\* the putResource request's write has reached the table
Applied(r) == put[r].save = "applied"

\* C1: the table never holds two rows for one execution condition; once a
\* request's write is applied there is exactly one row for its condition, in
\* state success; and a record step whose lookup found a row writes to that
\* row in place (it never inserts, so it can never be rejected as a duplicate).
C1_OneRowPerCondition ==
  /\ \A i \in 1..Len(CondNames) : Count(CondNames[i]) <= 1
  /\ \A r \in PutReqs :
       /\ Applied(r) => Count(put[r].cond) = 1 /\ RowOf(r).state = "success"
       /\ (put[r].pc = "done" /\ put[r].found # 0) =>
             /\ put[r].dbPayment = put[r].found
             /\ put[r].save # "conflict"
             /\ Len(payments) >= put[r].found
             /\ payments[put[r].found].execution_condition = put[r].cond

\* C1 witness: a second execution for a condition found the row of the first
\* and its write was applied to that row
C1_Witness ==
  \E r1, r2 \in PutReqs :
    /\ r1 # r2 /\ put[r1].cond = put[r2].cond
    /\ put[r1].found = 0 /\ Applied(r1)
    /\ put[r2].found # 0 /\ Applied(r2)
    /\ Count(put[r2].cond) = 1

\* C2 (as claimed): when two requests carry the same condition, once both
\* writes have reached the database there is one row for the condition and
\* neither write was rejected as a duplicate (the insert became an update).
C2_ConcurrentUpsert ==
  \A r1, r2 \in PutReqs :
    (/\ r1 # r2
     /\ put[r1].cond # Undefined /\ put[r1].cond = put[r2].cond
     /\ put[r1].save \notin {"none", "pending"}
     /\ put[r2].save \notin {"none", "pending"})
    => /\ Count(put[r1].cond) = 1
       /\ put[r1].save = "applied"
       /\ put[r2].save = "applied"

\* C3 (as claimed): a row that setup created and putResource then completed
\* is in state success, still has the four columns setup wrote, and has the
\* sender's columns.
C3_MergeKeepsReceiverFields ==
  \A s \in SetupReqs, r \in PutReqs :
    (/\ setup[s].created = "ok" /\ put[r].cond = setup[s].cond
     /\ put[r].found # 0 /\ Applied(r))
    => LET row == payments[put[r].found] IN
         /\ row.state = "success"
         /\ row.source_account = setup[s].sender_identifier
         /\ row.destination_user = setup[s].destinationUser
         /\ row.destination_amount = setup[s].amount
         /\ row.message = setup[s].memo
         /\ row.source_user = ReqUser.id
         /\ row.destination_account # Undefined
         /\ row.transfer # Undefined

\* position of the first occurrence of event e in a request's history, 0 if absent
RECURSIVE Pos(_, _, _)
Pos(evs, e, i) ==
  IF i > Len(evs) THEN 0 ELSE IF evs[i] = e THEN i ELSE Pos(evs, e, i + 1)

\* C4: in every request, prepare comes before fulfill, and fulfill before the
\* record write (save) and the notification; a write or a notification
\* exists only for a request whose spsp.pay has returned.
C4_Ordering ==
  \A r \in PutReqs :
    LET evs == put[r].events
        at(e) == Pos(evs, e, 1)
    IN  /\ at("fulfill") # 0 => (at("prepare") # 0 /\ at("prepare") < at("fulfill"))
        /\ at("save") # 0 => (at("fulfill") # 0 /\ at("fulfill") < at("save"))
        /\ at("notify") # 0 => (at("fulfill") # 0 /\ at("fulfill") < at("notify"))
        /\ (put[r].save # "none" \/ put[r].status = 200) =>
              (at("fulfill") # 0 /\ r \notin held)

\* C4 witness: a request that has prepared, fulfilled, saved and notified
C4_Witness ==
  \E r \in PutReqs :
    put[r].events = <<"prepare", "fulfill", "findOne", "save", "notify">>

\* C5: a row in state success (or failed) keeps its state in every step
C5_TerminalStates ==
  [][\A i \in 1..Len(payments) :
       payments[i].state \in {"success", "failed"} =>
         (i <= Len(payments') /\ payments'[i].state = payments[i].state)]_vars

\* C5 witness: two requests both found the row setup created and both writes
\* were applied, so the second write met a row already in state success
C5_Witness ==
  \E s \in SetupReqs, r1, r2 \in PutReqs :
    /\ r1 # r2 /\ setup[s].created = "ok"
    /\ put[r1].cond = setup[s].cond /\ put[r2].cond = setup[s].cond
    /\ put[r1].found # 0 /\ put[r2].found # 0
    /\ Applied(r1) /\ Applied(r2)
    /\ payments[put[r2].found].state = "success"

\* C6: a request whose execution failed has started no write, published no
\* notification, did not answer 200 and holds no transfer; no row and no
\* notification carries its transfer.
C6_FailureLeavesNothing ==
  \A r \in PutReqs :
    put[r].error # "none" =>
      /\ put[r].save = "none"
      /\ put[r].status # 200
      /\ r \notin held
      /\ Pos(put[r].events, "save", 1) = 0
      /\ Pos(put[r].events, "notify", 1) = 0
      /\ \A i \in 1..Len(payments) : payments[i].transfer # TransferNames[r]
      /\ \A n \in socket : n.payment.transfer # TransferNames[r]

\* C6 witness: one request failed at the ledger, another at destination
\* parsing, while a third party's row is in the table
C6_Witness ==
  \E r1, r2 \in PutReqs :
    /\ put[r1].error \in {"LedgerInsufficientFundsError", "InvalidLedgerAccountError"}
    /\ put[r2].error = "InvalidDestinationError"
    /\ Len(payments) > 0

\* C7: a setup request for a username without a user ends with status 404,
\* never calls spsp.createRequest and creates no row.
C7_UnknownReceiver ==
  /\ \A s \in SetupReqs :
       (setup[s].pc # "idle" /\ UserFindOne(setup[s].username) = {}) =>
          /\ setup[s].pc = "done"
          /\ setup[s].status = 404
          /\ ~setup[s].requested
          /\ setup[s].cond = Undefined
          /\ setup[s].created = "none"
          /\ setup[s].body = Undefined
  /\ \A i \in 1..Len(payments) :
       payments[i].source_account # Undefined =>
          payments[i].destination_user \in {u.id : u \in Users}

\* C7 witness: a setup request for an unknown user has ended
C7_Witness ==
  \E s \in SetupReqs : setup[s].username = "nobody" /\ setup[s].status = 404

\* C8: the step in which setup's create() succeeds adds exactly one row, the
\* only one with the condition handed back, in state pending, with the
\* receiver's columns and without a source user.
C8_SetupCreatesPendingRow ==
  [][\A s \in SetupReqs :
       (setup[s].pc = "create" /\ setup'[s].created = "ok") =>
          /\ Len(payments') = Len(payments) + 1
          /\ setup'[s].body = setup[s].cond
          /\ RowsWith(payments', setup'[s].body) = {Len(payments')}
          /\ payments'[Len(payments')].state = "pending"
          /\ payments'[Len(payments')].source_user = Undefined
          /\ payments'[Len(payments')].destination_user = setup[s].destinationUser]_vars

\* C8 witness: a setup request has handed back a condition and its row is
\* still pending
C8_Witness ==
  \E s \in SetupReqs :
    /\ setup[s].created = "ok" /\ setup[s].body # Undefined
    /\ \E i \in RowsWith(payments, setup[s].body) : payments[i].state = "pending"

\* the amounts a quote request supplied
Supplied(q) ==
  {a \in {"source", "destination"} :
     IF a = "source" THEN quote[q].source_amount # Undefined
     ELSE quote[q].destination_amount # Undefined}

C10_LocalAmountsEqual ==
  \A r \in PutReqs :
    (/\ Applied(r) /\ put[r].type = "LOCAL"
     /\ put[r].body.sourceAmount # Undefined
     /\ put[r].body.destinationAmount = Undefined)
    => /\ RowOf(r).state = "success"
       /\ RowOf(r).source_amount = put[r].body.sourceAmount
       /\ RowOf(r).destination_amount = put[r].body.sourceAmount

\* C11 (as claimed): a pending row whose transfer was rolled back at expiry,
\* and that no other transfer is made for, is moved to state failed by the
\* time the failed request has ended.
C11_RolledBackBecomesFailed ==
  \A r \in PutReqs :
    (/\ put[r].error = "DestinationUnreachableError"
     /\ \A o \in PutReqs : o # r => put[o].cond # put[r].cond)
    => \A i \in RowsWith(payments, put[r].cond) : payments[i].state = "failed"

\* C12: every quote answered for a LOCAL destination has sourceAmount equal
\* to destinationAmount, both equal to the one amount the caller supplied,
\* whether that was the source or the destination amount.
C12_LocalQuoteIdentity ==
  \A q \in QuoteReqs :
    (quote[q].pc = "done" /\ quote[q].type = "LOCAL") =>
      /\ quote[q].body.sourceAmount = quote[q].body.destinationAmount
      /\ quote[q].body.sourceAmount # Undefined
      /\ quote[q].body.sourceAmount =
            (IF Supplied(q) = {"source"} THEN quote[q].source_amount
             ELSE quote[q].destination_amount)

\* C12 witness: one LOCAL quote was answered for a source amount and another
\* for a destination amount
C12_Witness ==
  \E q1, q2 \in QuoteReqs :
    /\ quote[q1].pc = "done" /\ quote[q1].type = "LOCAL" /\ Supplied(q1) = {"source"}
    /\ quote[q2].pc = "done" /\ quote[q2].type = "LOCAL" /\ Supplied(q2) = {"destination"}

\* the number of rows of the table the requesting user sent or received
UserCount ==
  Cardinality({i \in 1..Len(payments) :
                 payments[i].source_user = ReqUser.id \/ payments[i].destination_user = ReqUser.id})

\* C13: a history request with a page and a positive limit is answered with
\* at most limit rows, all of them the user's, and with totalPages the least
\* integer p with p * limit >= count, count being the number of the user's rows.
C13_HistoryPaging ==
  \A h \in HistoryReqs :
    (/\ history[h].pc = "done"
     /\ history[h].limit \notin {Undefined, "0"})
    => LET lim == ToNumber(history[h].limit)
           tp == history[h].body.totalPages
           list == history[h].body.list
       IN  /\ Len(list) <= lim
           /\ \A i \in 1..Len(list) :
                 list[i].source_user = ReqUser.id \/ list[i].destination_user = ReqUser.id
           /\ tp \in 0..UserCount
           /\ tp * lim >= UserCount
           /\ (tp - 1) * lim < UserCount

\* C13 witness: page 1 with limit 2 of a user with three rows among others'
\* rows: a full page, and a count that is not a multiple of the limit
C13_Witness ==
  \E h \in HistoryReqs :
    /\ history[h].pc = "done" /\ history[h].page = "1" /\ history[h].limit = "2"
    /\ UserCount = 3 /\ Len(payments) > UserCount
    /\ Len(history[h].body.list) = 2
    /\ history[h].body.totalPages = 2

\* C14: a setup request whose create() failed has no response body, and a
\* setup request that has one (the parameters with the condition) has
\* created its row: the table holds a row for the condition handed back.
C14_ParamsOnlyWithRow ==
  \A s \in SetupReqs :
    /\ setup[s].created = "failed" => setup[s].body = Undefined
    /\ setup[s].body # Undefined =>
          /\ setup[s].created = "ok"
          /\ setup[s].body = setup[s].cond
          /\ RowsWith(payments, setup[s].body) # {}

\* C14 witness: spsp.createRequest produced a condition, create() failed, the
\* request has ended without a body and no row carries the condition
C14_Witness ==
  \E s \in SetupReqs :
    /\ setup[s].pc = "done" /\ setup[s].created = "failed"
    /\ setup[s].cond # Undefined /\ setup[s].body = Undefined
    /\ RowsWith(payments, setup[s].cond) = {}

\* C15 (as claimed): whenever a putResource request has answered 200 or its
\* notification is published, the table holds a row in state success for the
\* execution condition of its transfer.
C15_NotifiedMeansStored ==
  \A r \in PutReqs :
    (\/ put[r].status = 200
     \/ \E n \in socket : n.payment.transfer = TransferNames[r])
    => \E i \in RowsWith(payments, put[r].cond) : payments[i].state = "success"

\* C16 (as claimed): every request that has started runs spsp.pay exactly
\* once; the :id path parameter never keeps the transfer from being made.
\* (Requests that fail at destination parsing are left aside: the claim does
\* not speak about the destination.)
C16_PayOncePerRequest ==
  \A r \in PutReqs :
    (put[r].pc # "idle" /\ put[r].error # "InvalidDestinationError") => put[r].pays = 1

\* C16 (amended): no request calls spsp.pay more than once; a request whose
\* id is a valid UUID and whose destination parses calls it exactly once,
\* whatever ids earlier requests carried and whatever rows the table holds;
\* a request whose id is not a UUID never calls it; and a lookup of Payment
\* rows happens only after the call, when the transfer is prepared and fulfilled.
C16_PayOncePerValidRequest ==
  \A r \in PutReqs :
    LET at(e) == Pos(put[r].events, e, 1) IN
      /\ put[r].pays <= 1
      /\ (/\ put[r].pc # "idle" /\ IsUuid(put[r].id)
          /\ ParseDestination(put[r].destination).ok) => put[r].pays = 1
      /\ (put[r].pc # "idle" /\ ~IsUuid(put[r].id)) => put[r].pays = 0
      /\ at("findOne") # 0 =>
            /\ put[r].pays = 1
            /\ at("fulfill") # 0 /\ at("fulfill") < at("findOne")

\* C16 witness: two requests with the same id have both made a transfer for
\* the same condition, and the second one found the row the first had stored
C16_Witness ==
  \E r1, r2 \in PutReqs :
    /\ r1 # r2 /\ put[r1].id = put[r2].id /\ put[r1].cond = put[r2].cond
    /\ put[r1].pays = 1 /\ put[r2].pays = 1
    /\ Pos(put[r1].events, "fulfill", 1) # 0 /\ Pos(put[r2].events, "fulfill", 1) # 0
    /\ put[r1].found = 0 /\ put[r2].found # 0
    /\ payments[put[r2].found].state = "success"

====
